---- MODULE Spec2Model ----
(***************************************************************************)
(* Model of the deep-zoom pipeline of src/main.py: combine_strips (canvas  *)
(* packing), tile_image / make_single_dzi (pyramid tiling) and             *)
(* make_collection (collection manifest).                                  *)
(*                                                                         *)
(* Images are modelled by their size only.  File names are modelled by     *)
(* naturals whose numeric order stands for the lexicographic order of the  *)
(* zero-padded names.  math.log(d, 2) is modelled as exact: the float      *)
(* result agrees with the integer logarithm for every d below 2^29.        *)
(***************************************************************************)
EXTENDS Integers, Sequences, FiniteSets, TLC

\* ---------------------------------------------------------------- bounds
MaxStrips == 3
MaxStripH == 4
MaxHeight == 3
MaxDim == 5
MaxTile == 3
MaxCanvases == 2
MaxCanvasDim == 2
MaxFiles == 3
MaxCollW == 3
MaxPages == 2
MaxPageW == 2
MaxPageH == 4

\* ------------------------------------------------------ program constants
\* tile_size=256, overlap=1, fmt="jpg": the defaults of tile_image
DefaultTileSize == 256
DefaultOverlap == 1
DefaultFormat == "jpg"

VARIABLES
  \* combine_strips
  strips,      \* heights of the strip files, in sorted file order
  max_height,  \* the max_height argument
  pos,         \* 1-based index of the next strip the generator yields
  cur_h,       \* the vertical cursor
  idx,         \* the page index
  canvas,      \* the current canvas: buffer height and what was pasted into it
  pages,       \* the page files written, in the order written
  pcPack,      \* position in combine_strips
  \* tile_image and make_single_dzi
  mode,        \* which of the two runs: "tile_image" or "make_single_dzi"
  img,         \* tile_image: the size <<width, height>> of the image at img_path
  canvases,    \* make_single_dzi: the sizes of the canvas files, in sorted order
  cfg,         \* the arguments tile_size, overlap, fmt
  w, h,        \* the size of the image being tiled
  levels,      \* the number of levels
  level,       \* the loop variable of the level loop
  levelSizes,  \* level -> size of the level image made for it
  cols, rows,  \* the grid of the current level
  col, row,    \* the loop variables of the tile loops
  dzi,         \* the .dzi manifest file: <<>> while absent, else <<manifest>>
  tiles,       \* the tile files on disk
  pcTile,      \* position in tile_image / make_single_dzi
  run,         \* which invocation this is: 1, or 2 after an interruption
  \* make_collection
  dir,         \* canvases_dir: file name -> [ext, size]
  ccfg,        \* the options tile_size, overlap, fmt
  files,       \* the sorted list of eligible files
  cIdx,        \* the loop variable idx of enumerate(files)
  items,       \* the <I> elements under <Items>
  calls,       \* the calls of tile_image made so far, in order
  dziFiles,    \* the .dzi files in out_dir: stem -> manifest
  tileFiles,   \* the tile files in out_dir: stem -> set of tiles
  collection,  \* collection.xml: <<>> while absent, else <<manifest>>
  pcColl,      \* position in make_collection
  \* make_issue_strip, as make_strips calls it for one issue directory
  listing,     \* issue_dir: file name -> [kind, size]
  order,       \* sorted(os.listdir(issue_dir))
  fIdx,        \* how many names of the listing the loop has taken
  imgs,        \* the images opened, in order
  resized,     \* the resized images, in order
  strip,       \* the strip file: <<>> while absent, else <<[size, placed]>>
  result,      \* what make_issue_strip returned: "pending", "none" or "path"
  count,       \* make_strips: the number of strips generated
  pcStrip      \* position in make_issue_strip

packVars == <<strips, max_height, pos, cur_h, idx, canvas, pages, pcPack>>

tileVars == <<mode, img, canvases, cfg, w, h, levels, level, levelSizes,
              cols, rows, col, row, dzi, tiles, pcTile, run>>

collVars == <<dir, ccfg, files, cIdx, items, calls, dziFiles, tileFiles,
              collection, pcColl>>

stripVars == <<listing, order, fIdx, imgs, resized, strip, result, count,
               pcStrip>>

vars == <<packVars, tileVars, collVars, stripVars>>

\* ---------------------------------------------------------------- helpers
Min(a, b) == IF a < b THEN a ELSE b

Max(a, b) == IF a > b THEN a ELSE b

RECURSIVE SeqsUpTo(_, _)
\* all sequences over S of length 0..n
SeqsUpTo(S, n) ==
  IF n = 0 THEN {<<>>}
  ELSE LET shorter == SeqsUpTo(S, n - 1)
       IN shorter \cup {Append(s, x) : s \in {t \in shorter : Len(t) = n - 1}, x \in S}

RECURSIVE SumSeq(_)
SumSeq(s) == IF s = <<>> THEN 0 ELSE Head(s) + SumSeq(Tail(s))

\* the variables of the commands that are not running
PackIdle ==
  /\ strips = <<>> /\ max_height = 1 /\ pos = 1 /\ cur_h = 0 /\ idx = 0
  /\ canvas = [bufH |-> 0, placed |-> <<>>] /\ pages = <<>> /\ pcPack = "idle"

TileIdle ==
  /\ mode = "idle" /\ img = <<1, 1>> /\ canvases = <<>>
  /\ cfg = [tile_size |-> 1, overlap |-> 0, fmt |-> "jpg"]
  /\ w = 0 /\ h = 0 /\ levels = 0 /\ level = 0 /\ levelSizes = <<>>
  /\ cols = 0 /\ rows = 0 /\ col = 0 /\ row = 0
  /\ dzi = <<>> /\ tiles = {} /\ pcTile = "idle" /\ run = 1

CollIdle ==
  /\ dir = <<>> /\ ccfg = [tile_size |-> 1, overlap |-> 0, fmt |-> "jpg"]
  /\ files = <<>> /\ cIdx = 0 /\ items = <<>> /\ calls = <<>>
  /\ dziFiles = <<>> /\ tileFiles = <<>> /\ collection = <<>>
  /\ pcColl = "idle"

StripIdle ==
  /\ listing = <<>> /\ order = <<>> /\ fIdx = 0 /\ imgs = <<>>
  /\ resized = <<>> /\ strip = <<>> /\ result = "pending" /\ count = 0
  /\ pcStrip = "idle"

\* ------------------------------------------------------- combine_strips
\* Image.new("RGB", (canvas_w, max_height), ...): a blank buffer
NewCanvas(mh) == [bufH |-> mh, placed |-> <<>>]

\* canvas.paste(strip, (0, cur_h)): the strip is pasted at rows [y, y+h);
\* rows outside the buffer are clipped away by the paste
Paste(c, i, y, sh) ==
  [c EXCEPT !.placed = Append(@, [strip |-> i, y |-> y, h |-> sh])]

\* a crop to height 0 is an empty image, which the JPEG writer refuses to
\* save (the save raises)
SaveRaises(ch) == ch = 0

MutCropClamped(c, i, ch) ==
  [idx |-> i, height |-> Min(ch, c.bufH), bufH |-> c.bufH, placed |-> c.placed]

\* canvas.crop((0, 0, canvas_w, cur_h)).save(page_{idx}): the page file has
\* the crop's height, also when the crop reaches below the buffer
Crop(c, i, ch) ==
  [idx |-> i, height |-> ch, bufH |-> c.bufH, placed |-> c.placed]

MutOverflowsAtFit(y, sh, mh) == y + sh >= mh

\* the guard of the loop body: the strip does not fit under max_height
Overflows(y, sh, mh) == y + sh > mh

\* how the command ends: a function that returns lets the command exit with
\* status 0, an exception that nothing catches ends it with status 1
ExitStatus(pc) == IF pc = "aborted" THEN 1 ELSE 0

PackInit ==
  /\ \/ /\ strips \in SeqsUpTo(1..MaxStripH, MaxStrips)
        /\ max_height \in 1..MaxHeight
     \/ /\ strips = <<400, 450, 500>>
        /\ max_height = 1000
  /\ pos = 1
  /\ cur_h = 0
  /\ idx = 0
  /\ canvas = NewCanvas(0)
  /\ pages = <<>>
  /\ pcPack = "start"
  /\ TileIdle
  /\ CollIdle
  /\ StripIdle

\* lines 739-755: list the strips, return when there is none, else set up
PackStart ==
  /\ pcPack = "start"
  /\ IF strips = <<>>
     THEN /\ pcPack' = "nostrips"
          /\ UNCHANGED canvas
     ELSE /\ pcPack' = "loop"
          /\ canvas' = NewCanvas(max_height)
  /\ cur_h' = 0
  /\ idx' = 0
  /\ UNCHANGED <<strips, max_height, pos, pages, tileVars, collVars, stripVars>>

\* lines 757-768: one iteration of the loop over the strips
PackStrip ==
  /\ pcPack = "loop"
  /\ pos <= Len(strips)
  /\ LET sh == strips[pos] IN
     IF Overflows(cur_h, sh, max_height)
     THEN IF SaveRaises(cur_h)
          THEN /\ pcPack' = "aborted"
               /\ UNCHANGED <<pos, cur_h, idx, canvas, pages>>
          ELSE /\ pages' = Append(pages, Crop(canvas, idx, cur_h))
               /\ idx' = idx + 1
               /\ canvas' = Paste(NewCanvas(max_height), pos, 0, sh)
               /\ cur_h' = 0 + sh
               /\ pos' = pos + 1
               /\ UNCHANGED pcPack
     ELSE /\ canvas' = Paste(canvas, pos, cur_h, sh)
          /\ cur_h' = cur_h + sh
          /\ pos' = pos + 1
          /\ UNCHANGED <<idx, pages, pcPack>>
  /\ UNCHANGED <<strips, max_height, tileVars, collVars, stripVars>>

\* lines 770-773: after the last strip, save what the canvas holds
PackFinal ==
  /\ pcPack = "loop"
  /\ pos > Len(strips)
  /\ IF cur_h > 0
     THEN pages' = Append(pages, Crop(canvas, idx, cur_h))
     ELSE UNCHANGED pages
  /\ pcPack' = "done"
  /\ UNCHANGED <<strips, max_height, pos, cur_h, idx, canvas, tileVars, collVars, stripVars>>

PackNext == PackStart \/ PackStrip \/ PackFinal

SpecPack == PackInit /\ [][PackNext]_vars

\* ------------------------------------------------- claims: combine_strips
\* every placement of canvas record c
Placements(c) == {c.placed[k] : k \in 1..Len(c.placed)}

RECURSIVE PlacedOrder(_)
\* the strips of the pages, page after page, top to bottom inside a page
PlacedOrder(ps) ==
  IF ps = <<>> THEN <<>>
  ELSE [k \in 1..Len(Head(ps).placed) |-> Head(ps).placed[k].strip]
       \o PlacedOrder(Tail(ps))

PackEnded == pcPack \in {"done", "aborted", "nostrips"}

\* C1: every strip is pasted whole: its rows [y, y+h) lie inside the buffer
\* it is pasted into and inside the height the canvas is cropped to.
C1_StripPlacedWhole ==
  /\ \A p \in Placements(canvas) : p.y + p.h <= canvas.bufH
  /\ \A k \in 1..Len(pages) : \A p \in Placements(pages[k]) :
        /\ p.y + p.h <= pages[k].bufH
        /\ p.y + p.h <= pages[k].height

\* C2: when combine_strips has finished, the pages in page-index order and
\* the strips inside each page top to bottom are exactly the input strips in
\* order, and the page heights add up to the strip heights.
C2_ContentPreserved ==
  pcPack = "done" =>
    /\ \A k \in 1..Len(pages) : pages[k].idx = k - 1
    /\ PlacedOrder(pages) = [k \in 1..Len(strips) |-> k]
    /\ \A k \in 1..Len(pages) : \A j \in 1..Len(pages[k].placed) :
          /\ pages[k].placed[j].h = strips[pages[k].placed[j].strip]
          /\ pages[k].placed[j].y =
               SumSeq([m \in 1..(j - 1) |-> pages[k].placed[m].h])
    /\ SumSeq([k \in 1..Len(pages) |-> pages[k].height]) = SumSeq(strips)

C2_Witness ==
  /\ pcPack = "done"
  /\ Len(strips) = MaxStrips
  /\ Len(pages) >= 2
  /\ \E k \in 1..Len(pages) : Len(pages[k].placed) >= 2

\* C3: once combine_strips has ended, every strip taller than max_height
\* sits alone in a page of exactly its height, and every page that holds two
\* or more strips is at most max_height high.
C3_OversizedAlone ==
  PackEnded =>
    /\ \A i \in 1..Len(strips) : strips[i] > max_height =>
          \E k \in 1..Len(pages) :
             /\ Len(pages[k].placed) = 1
             /\ pages[k].placed[1].strip = i
             /\ pages[k].height = strips[i]
    /\ \A k \in 1..Len(pages) :
          Len(pages[k].placed) >= 2 => pages[k].height <= max_height

\* ------------------------------------------- tile_image, make_single_dzi
RECURSIVE CeilLog2(_)
\* int(math.ceil(math.log(d, 2))) for d >= 1
CeilLog2(d) == IF d <= 1 THEN 0 ELSE 1 + CeilLog2((d + 1) \div 2)

RECURSIVE FloorLog2(_)
\* int(math.log(d, 2)) for d >= 1
FloorLog2(d) == IF d <= 1 THEN 0 ELSE 1 + FloorLog2(d \div 2)

RECURSIVE Pow2(_)
\* 2 ** k
Pow2(k) == IF k <= 0 THEN 1 ELSE 2 * Pow2(k - 1)

MutLevelsFloor(iw, ih) == FloorLog2(Max(iw, ih)) + 1

MutLevelsNoTop(iw, ih) == CeilLog2(Max(iw, ih))

\* tile_image: levels = int(math.ceil(math.log(max(w, h), 2))) + 1
Levels(iw, ih) == CeilLog2(Max(iw, ih)) + 1

MutSingleLevelsFloor(iw, ih) == FloorLog2(Max(iw, ih)) + 1

\* make_single_dzi: the same expression on the combined image
SingleLevels(iw, ih) == CeilLog2(Max(iw, ih)) + 1

MutFloorDiv(a, b) == a \div b

\* int(math.ceil(a / b)) for a >= 0, b >= 1
CeilDiv(a, b) == IF a % b = 0 THEN a \div b ELSE (a \div b) + 1

\* scale = 2 ** (levels - level - 1)
Scale(n, l) == Pow2(n - l - 1)

\* (level_w, level_h) of level l of an image iw x ih with n levels
LevelSize(iw, ih, n, l) == <<CeilDiv(iw, Scale(n, l)), CeilDiv(ih, Scale(n, l))>>

MutBoxPadded(c, r, ts, lw, lh) == <<c * ts, r * ts, (c + 1) * ts, (r + 1) * ts>>

\* the crop box (left, upper, right, lower) of tile (c, r)
TileBox(c, r, ts, lw, lh) ==
  <<c * ts, r * ts, Min((c + 1) * ts, lw), Min((r + 1) * ts, lh)>>

\* the manifest text: its attributes
Manifest(c, iw, ih) ==
  [TileSize |-> c.tile_size, Overlap |-> c.overlap, Format |-> c.fmt,
   Width |-> iw, Height |-> ih]

MutSaveTileKeepExisting(disk, t) ==
  IF \E u \in disk : u.level = t.level /\ u.col = t.col /\ u.row = t.row
                      /\ u.fmt = t.fmt
  THEN disk
  ELSE disk \cup {t}

\* tile.save(level_dir / f"{col}_{row}.{fmt}"): the file at that path is
\* replaced
SaveTile(disk, t) ==
  {u \in disk : ~(u.level = t.level /\ u.col = t.col /\ u.row = t.row
                  /\ u.fmt = t.fmt)} \cup {t}

\* make_single_dzi, first pass: (max canvas width, sum of canvas heights)
RECURSIVE CombinedSize(_)
CombinedSize(cs) ==
  IF cs = <<>> THEN <<0, 0>>
  ELSE LET rest == CombinedSize(Tail(cs))
       IN <<Max(Head(cs)[1], rest[1]), Head(cs)[2] + rest[2]>>

ExampleImages == {<<256, 256>>, <<300, 200>>, <<517, 300>>}

TileConfigs ==
  {[tile_size |-> t, overlap |-> DefaultOverlap, fmt |-> DefaultFormat] :
     t \in 1..MaxTile}

DefaultConfig ==
  [tile_size |-> DefaultTileSize, overlap |-> DefaultOverlap,
   fmt |-> DefaultFormat]

TileLocalsInit ==
  /\ w = 0 /\ h = 0 /\ levels = 0 /\ level = 0 /\ levelSizes = <<>>
  /\ cols = 0 /\ rows = 0 /\ col = 0 /\ row = 0
  /\ dzi = <<>> /\ tiles = {} /\ pcTile = "start" /\ run = 1

TileInit ==
  /\ PackIdle
  /\ CollIdle
  /\ StripIdle
  /\ TileLocalsInit
  /\ \/ /\ mode = "tile_image"
        /\ canvases = <<>>
        /\ \/ /\ img \in (1..MaxDim) \X (1..MaxDim)
              /\ cfg \in TileConfigs
           \/ /\ img \in ExampleImages
              /\ cfg = DefaultConfig
     \/ /\ mode = "make_single_dzi"
        /\ img = <<1, 1>>
        /\ canvases \in SeqsUpTo((1..MaxCanvasDim) \X (1..MaxCanvasDim), MaxCanvases)
        /\ cfg \in TileConfigs

\* tile_image, lines 792-803: open the image, count the levels, write the
\* manifest
TileStart ==
  /\ pcTile = "start"
  /\ mode = "tile_image"
  /\ w' = img[1]
  /\ h' = img[2]
  /\ levels' = Levels(img[1], img[2])
  /\ dzi' = <<Manifest(cfg, img[1], img[2])>>
  /\ level' = 0
  /\ pcTile' = "level"
  /\ UNCHANGED <<run, mode, img, canvases, cfg, levelSizes, cols, rows, col, row,
                 tiles, packVars, collVars, stripVars>>

\* make_single_dzi, lines 892-937: list the canvases, return when there is
\* none, else measure and combine them, count the levels, write the manifest
SingleStart ==
  /\ pcTile = "start"
  /\ mode = "make_single_dzi"
  /\ IF canvases = <<>>
     THEN /\ pcTile' = "nofiles"
          /\ UNCHANGED <<w, h, levels, dzi, level>>
     ELSE LET size == CombinedSize(canvases) IN
          /\ w' = size[1]
          /\ h' = size[2]
          /\ levels' = SingleLevels(size[1], size[2])
          /\ dzi' = <<Manifest(cfg, size[1], size[2])>>
          /\ level' = 0
          /\ pcTile' = "level"
  /\ UNCHANGED <<run, mode, img, canvases, cfg, levelSizes, cols, rows, col, row,
                 tiles, packVars, collVars, stripVars>>

\* lines 806-815 (943-954): the head of one level: resize, size the grid
LevelBegin ==
  /\ pcTile = "level"
  /\ level < levels
  /\ LET size == LevelSize(w, h, levels, level)
         nc == CeilDiv(size[1], cfg.tile_size)
         nr == CeilDiv(size[2], cfg.tile_size)
     IN /\ levelSizes' = Append(levelSizes, size)
        /\ cols' = nc
        /\ rows' = nr
        /\ col' = 0
        /\ row' = 0
        /\ IF nc = 0 \/ nr = 0
           THEN level' = level + 1 /\ UNCHANGED pcTile
           ELSE pcTile' = "tile" /\ UNCHANGED level
  /\ UNCHANGED <<run, mode, img, canvases, cfg, w, h, levels, dzi, tiles, packVars, collVars, stripVars>>

\* lines 817-826 (959-968): crop and save one tile, step the two loops
WriteTile ==
  /\ pcTile = "tile"
  /\ LET size == levelSizes[level + 1]
         box == TileBox(col, row, cfg.tile_size, size[1], size[2])
     IN tiles' = SaveTile(tiles, [level |-> level, col |-> col, row |-> row,
                                  fmt |-> cfg.fmt, box |-> box, run |-> run])
  /\ IF row + 1 < rows
     THEN /\ row' = row + 1
          /\ UNCHANGED <<col, level, pcTile>>
     ELSE IF col + 1 < cols
          THEN /\ col' = col + 1
               /\ row' = 0
               /\ UNCHANGED <<level, pcTile>>
          ELSE /\ level' = level + 1
               /\ pcTile' = "level"
               /\ UNCHANGED <<col, row>>
  /\ UNCHANGED <<run, mode, img, canvases, cfg, w, h, levels, levelSizes, cols,
                 rows, dzi, packVars, collVars, stripVars>>

\* line 828 (975-977): past the last level
TileDone ==
  /\ pcTile = "level"
  /\ level >= levels
  /\ pcTile' = "done"
  /\ UNCHANGED <<run, mode, img, canvases, cfg, w, h, levels, level, levelSizes,
                 cols, rows, col, row, dzi, tiles, packVars, collVars, stripVars>>

TileNext == TileStart \/ SingleStart \/ LevelBegin \/ WriteTile \/ TileDone

SpecTile == TileInit /\ [][TileNext]_vars

\* tile_image is cut short somewhere after it wrote the manifest and is then
\* invoked again with the same arguments: the files stay, the call starts
\* over
Interrupt ==
  /\ pcTile \in {"level", "tile"}
  /\ mode = "tile_image"
  /\ run = 1
  /\ run' = 2
  /\ pcTile' = "start"
  /\ w' = 0 /\ h' = 0 /\ levels' = 0 /\ level' = 0 /\ levelSizes' = <<>>
  /\ cols' = 0 /\ rows' = 0 /\ col' = 0 /\ row' = 0
  /\ UNCHANGED <<mode, img, canvases, cfg, dzi, tiles, packVars, collVars, stripVars>>

RerunInit == TileInit /\ mode = "tile_image"

RerunNext == TileStart \/ LevelBegin \/ WriteTile \/ TileDone \/ Interrupt

SpecRerun == RerunInit /\ [][RerunNext]_vars

\* ----------------------------------------------------- claims: tile_image
\* max(width, height) of the image that is tiled, from the inputs
SourceDim ==
  IF mode = "tile_image" THEN Max(img[1], img[2])
  ELSE LET ws == {canvases[k][1] : k \in 1..Len(canvases)}
           wmax == CHOOSE x \in ws : \A y \in ws : y <= x
           hsum == SumSeq([k \in 1..Len(canvases) |-> canvases[k][2]])
       IN Max(wmax, hsum)

\* the levels that have tiles on disk
LevelsMade == {t.level : t \in tiles}

RECURSIVE IsPow2(_)
IsPow2(d) == d = 1 \/ (d > 1 /\ d % 2 = 0 /\ IsPow2(d \div 2))

\* C4: tile_image and make_single_dzi make exactly ceil(log2(d)) + 1 levels,
\* numbered 0..levels-1, for d = max(width, height); 9 for d = 256 and 10
\* for d = 300.
C4_LevelCount ==
  pcTile = "done" =>
    LET n == Cardinality(LevelsMade) IN
    /\ LevelsMade = 0..(n - 1)
    /\ Len(levelSizes) = n
    /\ n >= 1
    /\ Pow2(n - 1) >= SourceDim
    /\ n >= 2 => Pow2(n - 2) < SourceDim
    /\ SourceDim = 256 => n = 9
    /\ SourceDim = 300 => n = 10

C4_Witness ==
  /\ pcTile = "done"
  /\ mode = "tile_image"
  /\ img = <<300, 200>>
  /\ Cardinality(LevelsMade) = 10

\* C5 as stated: tile_image makes floor(log2(d)) + 1 levels.
C5_FloorLevels ==
  (pcTile = "done" /\ mode = "tile_image") =>
    LET n == Cardinality(LevelsMade) IN
    /\ n >= 1
    /\ Pow2(n - 1) <= SourceDim
    /\ SourceDim < Pow2(n)

\* C5 amended: tile_image makes floor(log2(d)) + 1 levels when d is a power
\* of two and floor(log2(d)) + 2 levels otherwise.
C5_LevelsAmended ==
  (pcTile = "done" /\ mode = "tile_image") =>
    LET n == Cardinality(LevelsMade) IN
    IF IsPow2(SourceDim)
    THEN /\ n >= 1
         /\ Pow2(n - 1) = SourceDim
    ELSE /\ n >= 2
         /\ Pow2(n - 2) < SourceDim
         /\ SourceDim < Pow2(n - 1)

C5_Witness ==
  /\ pcTile = "done"
  /\ mode = "tile_image"
  /\ ~IsPow2(SourceDim)
  /\ Cardinality(LevelsMade) = 4

\* C6: the image of level L is ceil(width / s) x ceil(height / s) for
\* s = 2^(levels-1-L), each side at least 1, and the top level has the
\* size of the original.
C6_LevelSizes ==
  mode = "tile_image" =>
    /\ \A k \in 1..Len(levelSizes) :
          LET s == Pow2(levels - k)
              lw == levelSizes[k][1]
              lh == levelSizes[k][2]
          IN /\ lw >= 1 /\ lh >= 1
             /\ lw * s >= img[1] /\ (lw - 1) * s < img[1]
             /\ lh * s >= img[2] /\ (lh - 1) * s < img[2]
    /\ pcTile = "done" =>
          /\ Len(levelSizes) = levels
          /\ levels >= 1
          /\ levelSizes[levels] = img

C6_Witness ==
  /\ pcTile = "done"
  /\ mode = "tile_image"
  /\ img = <<5, 3>>
  /\ Len(levelSizes) = 4
  /\ levelSizes[3] = <<3, 2>>

\* the tiles on disk of level l
TilesOf(l) == {t \in tiles : t.level = l}

\* C7: the tiles of a level partition it: ceil(levelW/tile_size) columns and
\* ceil(levelH/tile_size) rows, every pixel in exactly one tile, every tile
\* non-empty and at most tile_size x tile_size, edge tiles clipped to the
\* level; 517x300 at tile_size 256 gives 3x2 tiles, column 2 of width 5.
C7_TilePartition ==
  (pcTile = "done" /\ mode = "tile_image") =>
    /\ \A k \in 1..Len(levelSizes) :
          LET lw == levelSizes[k][1]
              lh == levelSizes[k][2]
              ts == cfg.tile_size
              T == TilesOf(k - 1)
              nc == Cardinality({t.col : t \in T})
              nr == Cardinality({t.row : t \in T})
          IN /\ {t.col : t \in T} = 0..(nc - 1)
             /\ {t.row : t \in T} = 0..(nr - 1)
             /\ Cardinality(T) = nc * nr
             /\ nc * ts >= lw /\ (nc - 1) * ts < lw
             /\ nr * ts >= lh /\ (nr - 1) * ts < lh
             /\ \A t \in T :
                   /\ t.box[1] < t.box[3] /\ t.box[2] < t.box[4]
                   /\ t.box[3] - t.box[1] <= ts /\ t.box[4] - t.box[2] <= ts
                   /\ t.box[1] >= 0 /\ t.box[2] >= 0
                   /\ t.box[3] <= lw /\ t.box[4] <= lh
             /\ \A x \in 0..(lw - 1) : \A y \in 0..(lh - 1) :
                   Cardinality({t \in T : /\ t.box[1] <= x /\ x < t.box[3]
                                          /\ t.box[2] <= y /\ y < t.box[4]}) = 1
    /\ (img = <<517, 300>> /\ cfg.tile_size = 256) =>
          LET T == TilesOf(levels - 1) IN
          /\ {<<t.col, t.row>> : t \in T} = (0..2) \X (0..1)
          /\ \A t \in T : t.col = 2 => t.box[3] - t.box[1] = 5

C7_Witness ==
  /\ pcTile = "done"
  /\ mode = "tile_image"
  /\ img = <<517, 300>>
  /\ \E t \in TilesOf(levels - 1) :
        t.col = 2 /\ t.row = 1 /\ t.box = <<512, 256, 517, 300>>

\* ------------------------------------------------------- make_collection
\* f.suffix.lower() in (".jpg", ".jpeg", ".png")
Eligible(ext) == ext \in {".jpg", ".jpeg", ".png"}

RECURSIVE MutSortedDesc(_)
MutSortedDesc(S) ==
  IF S = {} THEN <<>>
  ELSE LET m == CHOOSE x \in S : \A y \in S : y <= x
       IN <<m>> \o MutSortedDesc(S \ {m})

RECURSIVE Sorted(_)
\* sorted(...): the names in increasing order
Sorted(S) ==
  IF S = {} THEN <<>>
  ELSE LET m == CHOOSE x \in S : \A y \in S : x <= y
       IN <<m>> \o Sorted(S \ {m})

\* f with key k set to v
Put(f, k, v) == [x \in (DOMAIN f) \cup {k} |-> IF x = k THEN v ELSE f[x]]

\* every tile tile_image writes for an image iw x ih: all levels, all columns
\* and rows (lines 806-826)
AllTiles(iw, ih, c) ==
  LET n == Levels(iw, ih) IN
  UNION {LET size == LevelSize(iw, ih, n, l) IN
         {[level |-> l, col |-> tc, row |-> tr, fmt |-> c.fmt,
           box |-> TileBox(tc, tr, c.tile_size, size[1], size[2])] :
            tc \in 0..(CeilDiv(size[1], c.tile_size) - 1),
            tr \in 0..(CeilDiv(size[2], c.tile_size) - 1)} :
         l \in 0..(n - 1)}

\* the tile files after a run of tile_image over them: each tile replaces
\* the file at its path
SaveTiles(disk, new) ==
  {u \in disk : \A t \in new : ~(u.level = t.level /\ u.col = t.col
                                  /\ u.row = t.row /\ u.fmt = t.fmt)} \cup new

\* the tile files of stem f, none when there is no directory for it
TilesAt(tf, f) == IF f \in DOMAIN tf THEN tf[f] ELSE {}

\* the <I> element and its <Size> child (lines 851-856)
Item(i, f, size) ==
  [Id |-> i, N |-> f, Source |-> f, Width |-> size[1], Height |-> size[2]]

MutMaxLevelCeil(sizes) ==
  LET ds == {Max(sz[1], sz[2]) : sz \in sizes}
  IN CeilLog2(CHOOSE x \in ds : \A y \in ds : y <= x)

\* int(math.log(max(max(w, h) for w, h, _ in [...]), 2)) over the sizes the
\* calls returned (line 863)
MaxLevelOf(sizes) ==
  LET ds == {Max(sz[1], sz[2]) : sz \in sizes}
  IN FloorLog2(CHOOSE x \in ds : \A y \in ds : y <= x)

\* the call [f, tile_size, overlap, fmt] as logged
Call(f, c) == [f |-> f, tile_size |-> c.tile_size, overlap |-> c.overlap,
               fmt |-> c.fmt]

\* the log after the second pass: tile_image(f, out_dir) for f in files,
\* with the default tile_size, overlap and fmt
RECURSIVE SecondPassCalls(_, _)
SecondPassCalls(log, fs) ==
  IF fs = <<>> THEN log
  ELSE SecondPassCalls(Append(log, Call(Head(fs), DefaultConfig)), Tail(fs))

RECURSIVE SecondPassDzi(_, _, _)
SecondPassDzi(df, d, fs) ==
  IF fs = <<>> THEN df
  ELSE SecondPassDzi(
         Put(df, Head(fs),
             Manifest(DefaultConfig, d[Head(fs)].size[1], d[Head(fs)].size[2])),
         d, Tail(fs))

RECURSIVE SecondPassTiles(_, _, _)
SecondPassTiles(tf, d, fs) ==
  IF fs = <<>> THEN tf
  ELSE SecondPassTiles(
         Put(tf, Head(fs),
             SaveTiles(TilesAt(tf, Head(fs)),
                       AllTiles(d[Head(fs)].size[1], d[Head(fs)].size[2],
                                DefaultConfig))),
         d, Tail(fs))

CollSizes == (1..MaxCollW) \X (1..2)

CollEntries ==
  {[ext |-> ".txt", size |-> <<1, 1>>]}
    \cup {[ext |-> ".jpg", size |-> sz] : sz \in CollSizes}

CollConfigs ==
  {DefaultConfig, [tile_size |-> MaxTile - 1, overlap |-> 0, fmt |-> "png"]}

CollInit ==
  /\ PackIdle
  /\ TileIdle
  /\ StripIdle
  /\ \E names \in SUBSET (1..MaxFiles) : dir \in [names -> CollEntries]
  /\ ccfg \in CollConfigs
  /\ files = <<>> /\ cIdx = 0 /\ items = <<>> /\ calls = <<>>
  /\ dziFiles = <<>> /\ tileFiles = <<>> /\ collection = <<>>
  /\ pcColl = "start"

\* lines 842-846: make out_dir, list and sort the eligible files
CollStart ==
  /\ pcColl = "start"
  /\ files' = Sorted({f \in DOMAIN dir : Eligible(dir[f].ext)})
  /\ cIdx' = 0
  /\ pcColl' = "loop"
  /\ UNCHANGED <<dir, ccfg, items, calls, dziFiles, tileFiles, collection,
                 packVars, tileVars, stripVars>>

\* lines 848-858: one iteration: tile the file, append its item
CollItem ==
  /\ pcColl = "loop"
  /\ cIdx < Len(files)
  /\ LET f == files[cIdx + 1]
         size == dir[f].size
     IN /\ calls' = Append(calls, Call(f, ccfg))
        /\ dziFiles' = Put(dziFiles, f, Manifest(ccfg, size[1], size[2]))
        /\ tileFiles' = Put(tileFiles, f,
                            SaveTiles(TilesAt(tileFiles, f),
                                      AllTiles(size[1], size[2], ccfg)))
        /\ items' = Append(items, Item(cIdx, f, size))
  /\ cIdx' = cIdx + 1
  /\ UNCHANGED <<dir, ccfg, files, collection, pcColl, packVars, tileVars, stripVars>>

\* lines 860-877: build the Collection element, which tiles every file once
\* more to take the largest side, and write collection.xml; max() of no
\* file raises
CollManifest ==
  /\ pcColl = "loop"
  /\ cIdx >= Len(files)
  /\ IF files = <<>>
     THEN /\ pcColl' = "aborted"
          /\ UNCHANGED <<calls, dziFiles, tileFiles, collection>>
     ELSE /\ calls' = SecondPassCalls(calls, files)
          /\ dziFiles' = SecondPassDzi(dziFiles, dir, files)
          /\ tileFiles' = SecondPassTiles(tileFiles, dir, files)
          /\ collection' =
               <<[MaxLevel |-> MaxLevelOf({dir[files[k]].size : k \in 1..Len(files)}),
                  TileSize |-> ccfg.tile_size,
                  Format |-> ccfg.fmt,
                  NextItemId |-> Len(files),
                  Items |-> items]>>
          /\ pcColl' = "done"
  /\ UNCHANGED <<dir, ccfg, files, cIdx, items, packVars, tileVars, stripVars>>

CollNext == CollStart \/ CollItem \/ CollManifest

SpecColl == CollInit /\ [][CollNext]_vars

\* ------------------------------------------------ claims: make_collection
\* the eligible files of the directory and their largest side, from the input
InputFiles == {f \in DOMAIN dir : dir[f].ext \in {".jpg", ".jpeg", ".png"}}

LargestSide ==
  LET ds == {dir[f].size[1] : f \in InputFiles}
              \cup {dir[f].size[2] : f \in InputFiles}
  IN CHOOSE x \in ds : \A y \in ds : y <= x

\* the calls of tile_image on file f
CallsOf(f) == {k \in 1..Len(calls) : calls[k].f = f}

\* C8: in the collection manifest the item ids are 0..n-1 in the order of the
\* sorted input files, without gap or repeat, and NextItemId = n.
C8_ItemIds ==
  pcColl = "done" =>
    LET c == collection[1]
        n == Cardinality(InputFiles)
    IN /\ Len(c.Items) = n
       /\ c.NextItemId = n
       /\ \A k \in 1..n : c.Items[k].Id = k - 1
       /\ {c.Items[k].N : k \in 1..n} = InputFiles
       /\ \A j, k \in 1..n : j < k => c.Items[j].N < c.Items[k].N

C8_Witness ==
  /\ pcColl = "done"
  /\ Cardinality(DOMAIN dir) = MaxFiles
  /\ Len(collection[1].Items) = 2
  /\ collection[1].Items[2].N = MaxFiles

\* C9: tile_image is called exactly once per input file in a run of
\* make_collection.
C9_TiledOnce ==
  /\ \A f \in InputFiles : Cardinality(CallsOf(f)) <= 1
  /\ pcColl = "done" => \A f \in InputFiles : Cardinality(CallsOf(f)) = 1

\* C10: MaxLevel of the collection manifest is floor(log2(D)), D the largest
\* side of any item.
C10_MaxLevel ==
  pcColl = "done" =>
    LET m == collection[1].MaxLevel IN
    /\ m >= 0
    /\ Pow2(m) <= LargestSide
    /\ LargestSide < Pow2(m + 1)

C10_Witness ==
  /\ pcColl = "done"
  /\ Len(collection[1].Items) >= 2
  /\ LargestSide = 3
  /\ collection[1].MaxLevel = 1
  /\ collection[1].Items[1].Width = 3
  /\ collection[1].Items[2].Height = 2

\* ---------------------------------------- claims: empty input, packing
\* C11: combine on a directory without strips ends with a non-zero exit
\* status and writes no page (the same is claimed of make-collection and
\* make-single-pyramid).
C11_EmptyInputAborts ==
  (PackEnded /\ strips = <<>>) =>
    /\ ExitStatus(pcPack) # 0
    /\ pages = <<>>

\* C14: a step of the loop finalizes the current canvas (writes a page, or
\* tries to) only when the cursor is above 0 and the strip does not fit; no
\* page of height 0 is written and the pages carry the indices 0..k-1.
C14_FinalizeOnlyNonEmpty ==
  [][(pcPack = "loop" /\ pos <= Len(strips)) =>
       /\ (Len(pages') > Len(pages) \/ pcPack' = "aborted") =>
             (cur_h > 0 /\ cur_h + strips[pos] > max_height)
       /\ \A k \in 1..Len(pages') :
             pages'[k].height > 0 /\ pages'[k].idx = k - 1]_vars

\* the strip that opens a page
FirstStrip(pg) == pg.placed[1].strip

\* C15: packing is greedy in input order: a strip joins the current canvas
\* whenever it fits, an exact fit included, and opens a new canvas only when
\* the canvas before it is non-empty and the strip does not fit; heights
\* [400, 450, 500] with max_height 1000 give pages {1, 2} and {3}.
C15_Greedy ==
  /\ \A k \in 1..Len(pages) :
        /\ Len(pages[k].placed) >= 1
        /\ k > 1 =>
             /\ pages[k - 1].height > 0
             /\ pages[k - 1].height + strips[FirstStrip(pages[k])] > max_height
        /\ \A j \in 2..Len(pages[k].placed) :
             pages[k].placed[j].y + pages[k].placed[j].h <= max_height
  /\ (pcPack = "loop" /\ Len(pages) >= 1 /\ Len(canvas.placed) >= 1) =>
        pages[Len(pages)].height + strips[FirstStrip(canvas)] > max_height
  /\ \A j \in 2..Len(canvas.placed) :
        canvas.placed[j].y + canvas.placed[j].h <= max_height
  /\ (pcPack = "done" /\ strips = <<400, 450, 500>> /\ max_height = 1000) =>
        /\ Len(pages) = 2
        /\ PlacedOrder(<<pages[1]>>) = <<1, 2>>
        /\ PlacedOrder(<<pages[2]>>) = <<3>>
        /\ pages[1].height = 850
        /\ pages[2].height = 500

C15_Witness ==
  /\ pcPack = "done"
  /\ Len(pages) >= 2
  /\ \E k \in 1..Len(pages) :
        Len(pages[k].placed) >= 2 /\ pages[k].height = max_height

\* --------------------------------- claims: manifests, interrupted tiling
\* C16: when make_collection has finished, the manifest on disk of every
\* item records the configured tile_size, overlap and fmt, agrees with the
\* collection manifest, and the tiles last written for it are those of the
\* configured tile_size and fmt.
C16_ManifestsMatchConfig ==
  pcColl = "done" =>
    \A k \in 1..Len(items) :
       LET f == items[k].N
           m == dziFiles[f]
           last == CHOOSE c \in CallsOf(f) : \A d \in CallsOf(f) : d <= c
       IN /\ m.TileSize = ccfg.tile_size
          /\ m.Overlap = ccfg.overlap
          /\ m.Format = ccfg.fmt
          /\ m.TileSize = collection[1].TileSize
          /\ m.Format = collection[1].Format
          /\ calls[last].tile_size = ccfg.tile_size
          /\ calls[last].fmt = ccfg.fmt

\* a tile file without the stamp of the run that wrote it
Unstamped(t) == [level |-> t.level, col |-> t.col, row |-> t.row,
                 fmt |-> t.fmt, box |-> t.box]

\* C17: after tile_image is interrupted anywhere and run again to the end,
\* the tile paths (and boxes) and the manifest on disk are those of one
\* uninterrupted run, and every tile was written by the second run.
C17_RerunSameResult ==
  pcTile = "done" =>
    /\ {Unstamped(t) : t \in tiles} = AllTiles(img[1], img[2], cfg)
    /\ dzi = <<Manifest(cfg, img[1], img[2])>>
    /\ \A t \in tiles : t.run = run

C17_Witness ==
  /\ pcTile = "done"
  /\ run = 2
  /\ img = <<5, 3>>
  /\ cfg.tile_size = 2
  /\ Cardinality(tiles) >= 10

\* ------------------------------------------ make_issue_strip, make_strips
\* f.lower().endswith((".jpg", ".jpeg", ".png"))
IsPageName(ext) == ext \in {".jpg", ".jpeg", ".png"}

\* Image.open(issue_dir / f) raises: the file is no image at all
OpenRaises(e) == e.data = "unopenable"

\* img.resize(...) raises: Image.open reads the header only, the pixel data
\* is decoded by the first operation that needs it, and it is cut short
LoadRaises(im) == im.data = "truncated"

\* int(img.width * scale) with scale = max_h / img.height: the float product
\* cut to an integer (equal to the integer quotient for all sides up to 10)
ResizedWidth(iw, ih, mh) == (iw * mh) \div ih

\* max(img.height for img in imgs)
MaxH(ims) ==
  LET hs == {ims[k].size[2] : k \in 1..Len(ims)}
  IN CHOOSE x \in hs : \A y \in hs : y <= x

\* the loop of lines 701-704: paste each image at x, advance x by its width
RECURSIVE PasteAll(_, _)
PasteAll(rs, x) ==
  IF rs = <<>> THEN <<>>
  ELSE <<[name |-> Head(rs).name, x |-> x, size |-> Head(rs).size]>>
       \o PasteAll(Tail(rs), x + Head(rs).size[1])

PageSizes == (1..MaxPageW) \X (1..MaxPageH)

PageEntries ==
  {[ext |-> ".txt", data |-> "ok", size |-> <<1, 1>>],
   [ext |-> ".jpg", data |-> "unopenable", size |-> <<1, 1>>]}
    \cup {[ext |-> ".jpg", data |-> "truncated", size |-> <<1, ph>>] :
            ph \in 1..MaxPageH}
    \cup {[ext |-> ".jpg", data |-> "ok", size |-> sz] : sz \in PageSizes}

StripInit ==
  /\ PackIdle
  /\ TileIdle
  /\ CollIdle
  /\ \E names \in SUBSET (1..MaxPages) : listing \in [names -> PageEntries]
  /\ order = <<>> /\ fIdx = 0 /\ imgs = <<>> /\ resized = <<>>
  /\ strip = <<>> /\ result = "pending" /\ count = 0
  /\ pcStrip = "start"

\* line 681: list the directory in sorted order
StripList ==
  /\ pcStrip = "start"
  /\ order' = Sorted(DOMAIN listing)
  /\ fIdx' = 0
  /\ pcStrip' = "open"
  /\ UNCHANGED <<listing, imgs, resized, strip, result, count,
                 packVars, tileVars, collVars>>

\* lines 681-688: one name of the listing: open it when it is a page file,
\* skip it when the open raises
StripOpen ==
  /\ pcStrip = "open"
  /\ fIdx < Len(order)
  /\ LET f == order[fIdx + 1]
         e == listing[f]
     IN IF IsPageName(e.ext) /\ ~OpenRaises(e)
        THEN imgs' = Append(imgs, [name |-> f, size |-> e.size, data |-> e.data])
        ELSE UNCHANGED imgs
  /\ fIdx' = fIdx + 1
  /\ UNCHANGED <<listing, order, resized, strip, result, count, pcStrip,
                 packVars, tileVars, collVars>>

\* lines 689-690 and 726: nothing opened: return None, make_strips counts
\* nothing
StripNone ==
  /\ pcStrip = "open"
  /\ fIdx >= Len(order)
  /\ imgs = <<>>
  /\ result' = "none"
  /\ pcStrip' = "done"
  /\ UNCHANGED <<listing, order, fIdx, imgs, resized, strip, count,
                 packVars, tileVars, collVars>>

\* lines 692-696: the largest height, every image resized to it
StripResize ==
  /\ pcStrip = "open"
  /\ fIdx >= Len(order)
  /\ imgs # <<>>
  /\ IF \E k \in 1..Len(imgs) : LoadRaises(imgs[k])
     THEN /\ pcStrip' = "aborted"
          /\ UNCHANGED resized
     ELSE /\ resized' =
               [k \in 1..Len(imgs) |->
                  [name |-> imgs[k].name,
                   size |-> <<ResizedWidth(imgs[k].size[1], imgs[k].size[2],
                                           MaxH(imgs)),
                              MaxH(imgs)>>]]
          /\ pcStrip' = "paste"
  /\ UNCHANGED <<listing, order, fIdx, imgs, strip, result, count,
                 packVars, tileVars, collVars>>

\* lines 698-710 and 726-728: the strip of the summed width, the images
\* pasted side by side, the file saved, the path returned and counted
StripPaste ==
  /\ pcStrip = "paste"
  /\ strip' = <<[size |-> <<SumSeq([k \in 1..Len(resized) |-> resized[k].size[1]]),
                            MaxH(imgs)>>,
                 placed |-> PasteAll(resized, 0)]>>
  /\ result' = "path"
  /\ count' = count + 1
  /\ pcStrip' = "done"
  /\ UNCHANGED <<listing, order, fIdx, imgs, resized,
                 packVars, tileVars, collVars>>

StripNext == StripList \/ StripOpen \/ StripNone \/ StripResize \/ StripPaste

SpecStrip == StripInit /\ [][StripNext]_vars

\* ------------------------------------------- claims: make_issue_strip
\* the page files of the issue that can be loaded, in name order
Loadable ==
  Sorted({f \in DOMAIN listing :
            listing[f].ext \in {".jpg", ".jpeg", ".png"} /\ listing[f].data = "ok"})

StripEnded == pcStrip \in {"done", "aborted"}

\* C12: every page file that cannot be loaded is skipped without aborting;
\* the strip is made of the loadable ones in name order; with none left no
\* strip is written and the result is None.
C12_UnloadableSkipped ==
  StripEnded =>
    /\ pcStrip # "aborted"
    /\ Loadable = <<>> => (strip = <<>> /\ result = "none" /\ count = 0)
    /\ Loadable # <<>> =>
          /\ strip # <<>>
          /\ result = "path"
          /\ [k \in 1..Len(strip[1].placed) |-> strip[1].placed[k].name] = Loadable

\* C13: with H the largest height of the loadable images, image i is
\* resized to (round(width_i * H / height_i), H), the images are pasted left
\* to right at cumulative offsets, the strip is (sum of the widths, H), and a
\* single image keeps its own size.
C13_RoundedResize ==
  (pcStrip = "done" /\ result = "path") =>
    LET ps == strip[1].placed
        hs == {listing[f].size[2] : f \in {Loadable[k] : k \in 1..Len(Loadable)}}
        H == CHOOSE x \in hs : \A y \in hs : y <= x
    IN /\ strip[1].size[2] = H
       /\ strip[1].size[1] = SumSeq([k \in 1..Len(ps) |-> ps[k].size[1]])
       /\ \A k \in 1..Len(ps) :
             LET iw == listing[ps[k].name].size[1]
                 ih == listing[ps[k].name].size[2]
                 d == 2 * (ps[k].size[1] * ih - iw * H)
             IN /\ ps[k].size[2] = H
                /\ d <= ih /\ 0 - d <= ih
                /\ ps[k].x = SumSeq([j \in 1..(k - 1) |-> ps[j].size[1]])
       /\ Len(ps) = 1 => ps[1].size = listing[ps[1].name].size

====
